---- MODULE Spec2Model ----
(***************************************************************************)
(* Data-acquisition layer of the HR-Tech dashboard (src/app.py): the three *)
(* cached fetch functions fetch_stock, fetch_google_news and fetch_ir_news *)
(* and the manual-refresh button of main.                                  *)
(*                                                                         *)
(* Strings are sequences of one-character strings.  The characters 年, 月  *)
(* and 日 are written "nen", "gatsu" and "nichi".                          *)
(***************************************************************************)
EXTENDS Integers, Sequences, FiniteSets, TLC

VARIABLES now, cache, pc, key, ret, served, hit, stored, dropped

vars == <<now, cache, pc, key, ret, served, hit, stored, dropped>>

(***************************************************************************)
(* Characters and str methods                                              *)
(***************************************************************************)
Digits == {"0", "1", "2", "3", "4", "5", "6", "7", "8", "9"}

Whitespace == {" ", "\n"}

Letters == {"a", "b", "c", "d", "e", "f", "g", "h", "i", "j", "k", "l", "m",
            "n", "o", "p", "q", "r", "s", "t", "u", "v", "w", "x", "y", "z"}

Min(a, b) == IF a < b THEN a ELSE b

\* s[:n]
Prefix(s, n) == SubSeq(s, 1, Min(n, Len(s)))

\* s[n:] for a 0-based offset n
Suffix(s, n) == SubSeq(s, n + 1, Len(s))

\* str.startswith
startswith(s, p) == Len(s) >= Len(p) /\ SubSeq(s, 1, Len(p)) = p

RECURSIVE lstrip(_)
lstrip(s) == IF s # <<>> /\ Head(s) \in Whitespace THEN lstrip(Tail(s)) ELSE s

RECURSIVE rstrip(_)
rstrip(s) ==
    IF s # <<>> /\ s[Len(s)] \in Whitespace THEN rstrip(SubSeq(s, 1, Len(s) - 1)) ELSE s

\* str.strip()
strip(s) == rstrip(lstrip(s))

\* str.find(c): the 1-based index of the first c in s, 0 when there is none
find_char(s, c) ==
    IF \E i \in 1..Len(s) : s[i] = c
    THEN CHOOSE i \in 1..Len(s) : s[i] = c /\ \A j \in 1..(i - 1) : s[j] # c
    ELSE 0

RECURSIVE Concat(_)
Concat(ss) == IF ss = <<>> THEN <<>> ELSE Head(ss) \o Concat(Tail(ss))

(***************************************************************************)
(* DATE_PAT = \d{4}[./年]\d{1,2}[./月]\d{1,2}                              *)
(***************************************************************************)
YearSep == {".", "/", "nen"}

MonthSep == {".", "/", "gatsu"}

IsDigitAt(s, i) == i >= 1 /\ i <= Len(s) /\ s[i] \in Digits

IsCharAt(s, i, set) == i >= 1 /\ i <= Len(s) /\ s[i] \in set

\* The end index of the match of \d{1,2} followed by sep that starts at i, 0 if none.
\* The quantifier is greedy; since the separators are not digits, backtracking
\* from two digits to one never finds another match.
DigitsThenSep(s, i, set) ==
    IF IsDigitAt(s, i) /\ IsDigitAt(s, i + 1) /\ IsCharAt(s, i + 2, set) THEN i + 2
    ELSE IF IsDigitAt(s, i) /\ IsCharAt(s, i + 1, set) THEN i + 1
    ELSE 0

\* The end index of DATE_PAT matched at start index i, 0 when it does not match there.
DATE_PAT_match_end(s, i) ==
    IF /\ \A j \in i..(i + 3) : IsDigitAt(s, j)
       /\ IsCharAt(s, i + 4, YearSep)
       /\ DigitsThenSep(s, i + 5, MonthSep) # 0
    THEN LET m == DigitsThenSep(s, i + 5, MonthSep)
         IN  IF IsDigitAt(s, m + 1) /\ IsDigitAt(s, m + 2) THEN m + 2
             ELSE IF IsDigitAt(s, m + 1) THEN m + 1
             ELSE 0
    ELSE 0

\* DATE_PAT.search(s): <<start, end>> of the leftmost match, <<0, 0>> for None
DATE_PAT_search(s) ==
    IF \E i \in 1..Len(s) : DATE_PAT_match_end(s, i) # 0
    THEN LET i == CHOOSE k \in 1..Len(s) :
                      /\ DATE_PAT_match_end(s, k) # 0
                      /\ \A j \in 1..(k - 1) : DATE_PAT_match_end(s, j) = 0
         IN  <<i, DATE_PAT_match_end(s, i)>>
    ELSE <<0, 0>>

\* match.group(0) of DATE_PAT.search(s), the empty string for None
DATE_PAT_group(s) ==
    LET m == DATE_PAT_search(s) IN IF m[1] = 0 THEN <<>> ELSE SubSeq(s, m[1], m[2])

(***************************************************************************)
(* The parsed document: a tree of tags and text nodes (BeautifulSoup)      *)
(***************************************************************************)
\* A text node
Text(s) == [tag |-> "#text", hasHref |-> FALSE, href |-> <<>>, text |-> s, kids |-> <<>>]

\* An element without attributes
El(tag, kids) == [tag |-> tag, hasHref |-> FALSE, href |-> <<>>, text |-> <<>>, kids |-> kids]

\* An <a> element with an href attribute
AHref(h, kids) == [tag |-> "a", hasHref |-> TRUE, href |-> h, text |-> <<>>, kids |-> kids]

\* The descendants of the nodes kids, in document order
RECURSIVE descendants(_)
descendants(kids) ==
    IF kids = <<>> THEN <<>>
    ELSE <<Head(kids)>> \o descendants(Head(kids).kids) \o descendants(Tail(kids))

IsTag(n, tag) == n.tag = tag

\* node.find_all(tag): every descendant with that tag, in document order
find_all(node, tag) == SelectSeq(descendants(node.kids), LAMBDA n : IsTag(n, tag))

\* node.find(tag) is not None
has_tag(node, tag) == find_all(node, tag) # <<>>

\* node.find(tag), for a node that has one
find(node, tag) == Head(find_all(node, tag))

\* a.get("href", "")
get_href(a) == IF a.hasHref THEN a.href ELSE <<>>

RECURSIVE strip_each(_)
strip_each(nodes) ==
    IF nodes = <<>> THEN <<>>
    ELSE (IF Head(nodes).tag = "#text" /\ strip(Head(nodes).text) # <<>>
          THEN <<strip(Head(nodes).text)>> ELSE <<>>) \o strip_each(Tail(nodes))

\* node.stripped_strings: the stripped text of every text node below node, in
\* document order, without the ones that are empty once stripped
stripped_strings(node) == strip_each(descendants(node.kids))

\* node.get_text(strip=True)
get_text_strip(node) == Concat(stripped_strings(node))

(***************************************************************************)
(* urllib.parse.urljoin, for URLs without "?", ";", "#" and whitespace     *)
(***************************************************************************)
SchemeChars == Letters \cup Digits \cup {"+", "-", "."}

\* The index of the ":" that ends the scheme of u, 0 when u has no scheme
scheme_end(u) ==
    LET i == find_char(u, ":")
    IN  IF i > 1 /\ u[1] \in Letters /\ \A j \in 1..(i - 1) : u[j] \in SchemeChars
        THEN i ELSE 0

url_scheme(u) == SubSeq(u, 1, scheme_end(u) - 1)

after_scheme(u) == Suffix(u, scheme_end(u))

has_netloc(u) == startswith(after_scheme(u), <<"/", "/">>)

\* what follows the "//" of u
after_slashes(u) == Suffix(after_scheme(u), Len(<<"/", "/">>))

url_netloc(u) ==
    IF has_netloc(u)
    THEN LET r == after_slashes(u)
             i == find_char(r, "/")
         IN  IF i = 0 THEN r ELSE SubSeq(r, 1, i - 1)
    ELSE <<>>

url_path(u) ==
    IF has_netloc(u) THEN Suffix(after_slashes(u), Len(url_netloc(u))) ELSE after_scheme(u)

InSeq(c, s) == \E i \in 1..Len(s) : s[i] = c

\* urlsplit raises ValueError("Invalid IPv6 URL") on an unbalanced bracket
urlsplit_raises(u) == InSeq("[", url_netloc(u)) # InSeq("]", url_netloc(u))

\* s.split("/")
RECURSIVE split_slash(_)
split_slash(s) ==
    LET i == find_char(s, "/")
    IN  IF i = 0 THEN <<s>> ELSE <<SubSeq(s, 1, i - 1)>> \o split_slash(Suffix(s, i))

\* "/".join(segs)
RECURSIVE join_slash(_)
join_slash(segs) ==
    IF segs = <<>> THEN <<>>
    ELSE IF Len(segs) = 1 THEN Head(segs)
    ELSE Head(segs) \o <<"/">> \o join_slash(Tail(segs))

Dot == <<".">>

DotDot == <<".", ".">>

\* the loop of urljoin that removes dot segments; acc is resolved_path
RECURSIVE resolve_segments(_, _)
resolve_segments(segs, acc) ==
    IF segs = <<>> THEN acc
    ELSE IF Head(segs) = DotDot
         THEN resolve_segments(Tail(segs),
                               IF acc = <<>> THEN acc ELSE SubSeq(acc, 1, Len(acc) - 1))
    ELSE IF Head(segs) = Dot THEN resolve_segments(Tail(segs), acc)
    ELSE resolve_segments(Tail(segs), Append(acc, Head(segs)))

\* segments[1:-1] = filter(None, segments[1:-1])
filter_middle(segs) ==
    IF Len(segs) <= 2 THEN segs
    ELSE <<Head(segs)>>
         \o SelectSeq(SubSeq(segs, 2, Len(segs) - 1), LAMBDA x : x # <<>>)
         \o <<segs[Len(segs)]>>

UsesRelative == {<<>>, <<"h", "t", "t", "p">>, <<"h", "t", "t", "p", "s">>, <<"f", "t", "p">>}

urlunparse(scheme, netloc, path) ==
    (IF scheme = <<>> THEN <<>> ELSE scheme \o <<":">>)
    \o <<"/", "/">> \o netloc
    \o (IF path # <<>> /\ Head(path) # "/" THEN <<"/">> ELSE <<>>) \o path

\* urljoin(base, url) raises
urljoin_raises(base, url) ==
    url # <<>> /\ base # <<>> /\ (urlsplit_raises(base) \/ urlsplit_raises(url))

\* base_parts: bpath.split("/") without its last segment unless that is empty
base_parts_of(parts) ==
    IF parts[Len(parts)] # <<>> THEN SubSeq(parts, 1, Len(parts) - 1) ELSE parts

\* segments, for a path that is not empty
segments_of(bpath, path) ==
    IF Head(path) = "/" THEN split_slash(path)
    ELSE filter_middle(base_parts_of(split_slash(bpath)) \o split_slash(path))

\* resolved_path joined, "/" when it is empty
resolved_path(segments) ==
    join_slash(resolve_segments(segments, <<>>)
               \o (IF segments[Len(segments)] \in {Dot, DotDot} THEN <<<<>>>> ELSE <<>>))

or_slash(path) == IF path = <<>> THEN <<"/">> ELSE path

\* urljoin once base and url are split: the scheme of url is bscheme when
\* url has none
urljoin_split(bscheme, bnetloc, bpath, scheme, netloc, path, url) ==
    IF scheme # bscheme \/ scheme \notin UsesRelative THEN url
    ELSE IF netloc # <<>> THEN urlunparse(scheme, netloc, path)
    ELSE IF path = <<>> THEN urlunparse(scheme, bnetloc, bpath)
    ELSE urlunparse(scheme, bnetloc, or_slash(resolved_path(segments_of(bpath, path))))

scheme_or(u, default) == IF scheme_end(u) = 0 THEN default ELSE url_scheme(u)

\* urljoin(base, url), when it does not raise
urljoin(base, url) ==
    IF url = <<>> THEN base
    ELSE IF base = <<>> THEN url
    ELSE urljoin_split(url_scheme(base), url_netloc(base), url_path(base),
                       scheme_or(url, url_scheme(base)), url_netloc(url), url_path(url), url)

(***************************************************************************)
(* fetch_ir_news: the extraction from the parsed document                  *)
(***************************************************************************)
MinTitleLen == 5

MinListItems == 3

MinDlTerms == 2

MinDlPairs == 2

MaxResults == 20

Http == <<"h", "t", "t", "p">>

SourceIR == <<"I", "R">>

SourceGoogle == <<"G", "o", "o", "g", "l", "e", " ", "N", "e", "w", "s">>

\* _extract_date(node)
RECURSIVE first_dated(_)
first_dated(strings) ==
    IF strings = <<>> THEN <<>>
    ELSE IF DATE_PAT_search(Head(strings))[1] # 0 THEN strip(Head(strings))
    ELSE first_dated(Tail(strings))

extract_date(node) == first_dated(stripped_strings(node))

\* "if href and not href.startswith("http")"
needs_join(href) == href # <<>> /\ ~startswith(href, Http)

\* href after "if href and not href.startswith("http"): href = urljoin(url, href)"
resolve_href(url, href) == IF needs_join(href) THEN urljoin(url, href) ELSE href

NewsRecord(date, title, link) ==
    [date |-> date, title |-> title, link |-> link, source |-> SourceIR]

\* What one li or one dt, dd pair does to batch: nothing (continue), one
\* record appended, or an exception
Skipped == [raised |-> FALSE, batch |-> <<>>]

Appended(rec) == [raised |-> FALSE, batch |-> <<rec>>]

Raised == [raised |-> TRUE, batch |-> <<>>]

\* batch after the item h and then the items that gave t
batch_cons(h, t) == [raised |-> h.raised \/ t.raised, batch |-> h.batch \o t.batch]

\* The lines of both patterns from "href = a.get(...)" to "batch.append(...)",
\* for the anchor a with the text title
anchor_item(href, title, date, url) ==
    IF needs_join(href) /\ urljoin_raises(url, href) THEN Raised
    ELSE Appended(NewsRecord(date, title, resolve_href(url, href)))

\* Pattern 1 with "if len(title) < 4: continue"
title_too_short_four(title) == Len(title) < MinTitleLen - 1

\* Pattern 1, "if len(title) < 5: continue"
title_too_short(title) == Len(title) < MinTitleLen

\* Pattern 1, the body of "for li in items": the li is skipped (continue)
li_skipped(li) == ~has_tag(li, "a") \/ title_too_short(get_text_strip(find(li, "a")))

li_anchor_item(a, li, url) == anchor_item(get_href(a), get_text_strip(a), extract_date(li), url)

li_item(li, url) == IF li_skipped(li) THEN Skipped ELSE li_anchor_item(find(li, "a"), li, url)

RECURSIVE ul_batch_of(_, _)
ul_batch_of(items, url) ==
    IF items = <<>> THEN Skipped
    ELSE batch_cons(li_item(Head(items), url), ul_batch_of(Tail(items), url))

\* Pattern 1: batch at the end of "for li in items", or the exception raised
ul_batch(ul, url) == ul_batch_of(find_all(ul, "li"), url)

\* Pattern 1 with "if len(batch) > 3"
ul_accepted_strict(batch) == Len(batch) > MinListItems

\* Pattern 1, "if len(batch) >= 3"
ul_accepted(batch) == Len(batch) >= MinListItems

NoResults == [raised |-> FALSE, results |-> <<>>]

Results(batch) == [raised |-> FALSE, results |-> Prefix(batch, MaxResults)]

RaisedResults == [raised |-> TRUE, results |-> <<>>]

\* Pattern 1 for one ul that gave o; rest is what the lists after it give
pattern1_step(o, rest) ==
    IF o.raised THEN RaisedResults
    ELSE IF ul_accepted(o.batch) THEN Results(o.batch)
    ELSE rest

\* Pattern 1 over the lists uls still to visit
RECURSIVE pattern1_scan(_, _)
pattern1_scan(uls, url) ==
    IF uls = <<>> THEN NoResults
    ELSE pattern1_step(ul_batch(Head(uls), url), pattern1_scan(Tail(uls), url))

pattern1(soup, url) == pattern1_scan(find_all(soup, "ul"), url)

\* zip(dts, dds)
zip(dts, dds) == [i \in 1..Min(Len(dts), Len(dds)) |-> <<dts[i], dds[i]>>]

\* Pattern 2: a = dd.find("a") or dt.find("a")
pair_has_anchor(pair) == has_tag(pair[2], "a") \/ has_tag(pair[1], "a")

pair_anchor(pair) == IF has_tag(pair[2], "a") THEN find(pair[2], "a") ELSE find(pair[1], "a")

\* d1 or d2
or_text(d1, d2) == IF d1 # <<>> THEN d1 ELSE d2

\* _extract_date(dt) or _extract_date(dd)
pair_date(pair) == or_text(extract_date(pair[1]), extract_date(pair[2]))

pair_anchor_item(a, pair, url) == anchor_item(get_href(a), get_text_strip(a), pair_date(pair), url)

pair_item(pair, url) ==
    IF pair_has_anchor(pair) THEN pair_anchor_item(pair_anchor(pair), pair, url) ELSE Skipped

RECURSIVE dl_batch_of(_, _)
dl_batch_of(pairs, url) ==
    IF pairs = <<>> THEN Skipped
    ELSE batch_cons(pair_item(Head(pairs), url), dl_batch_of(Tail(pairs), url))

dl_pairs(dl) == zip(find_all(dl, "dt"), find_all(dl, "dd"))

\* Pattern 2 with "if len(dts) < 3: continue"
dl_considered_three(dl) == Len(find_all(dl, "dt")) >= MinDlTerms + 1

\* Pattern 2: not "if len(dts) < 2: continue"
dl_considered(dl) == Len(find_all(dl, "dt")) >= MinDlTerms

\* Pattern 2: batch at the end of "for dt, dd in zip(dts, dds)"
dl_batch(dl, url) == dl_batch_of(dl_pairs(dl), url)

\* Pattern 2 with "if len(batch) >= 1"
dl_accepted_one(batch) == Len(batch) >= MinDlPairs - 1

\* Pattern 2, "if len(batch) >= 2"
dl_accepted(batch) == Len(batch) >= MinDlPairs

\* Pattern 2 for one dl that gave o; rest is what the lists after it give
pattern2_step(considered, o, rest) ==
    IF ~considered THEN rest
    ELSE IF o.raised THEN RaisedResults
    ELSE IF dl_accepted(o.batch) THEN Results(o.batch)
    ELSE rest

RECURSIVE pattern2_scan(_, _)
pattern2_scan(dls, url) ==
    IF dls = <<>> THEN NoResults
    ELSE pattern2_step(dl_considered(Head(dls)), dl_batch(Head(dls), url),
                       pattern2_scan(Tail(dls), url))

pattern2(soup, url) == pattern2_scan(find_all(soup, "dl"), url)

\* "if not results:" pattern 2 runs when pattern 1 neither raised nor gave
\* results
if_not_results(p1, p2) == IF p1.raised \/ p1.results # <<>> THEN p1 ELSE p2

\* The try block after the document is parsed: pattern 1, then pattern 2
extract(soup, url) == if_not_results(pattern1(soup, url), pattern2(soup, url))

(***************************************************************************)
(* The bodies of the three fetch functions, as functions of what the       *)
(* external service answers.  r.fail names the external step that raises.  *)
(***************************************************************************)
NoSoup == El("[document]", <<>>)

Response(fail, hist, info, entries, soup) ==
    [fail |-> fail, hist |-> hist, info |-> info, entries |-> entries, soup |-> soup]

\* What a call gives its caller: a value, or an exception that propagates
Returns(v) == [raised |-> FALSE, value |-> v]

Raises == [raised |-> TRUE, value |-> <<>>]

\* pd.DataFrame() and {}
EmptyStock == [hist |-> <<>>, info |-> {}]

\* fetch_stock: yf.Ticker or t.history raises ("history"), t.info raises
\* ("info", caught by the inner try)
fetch_stock_body(r) ==
    IF r.fail = "history" THEN Returns(EmptyStock)
    ELSE Returns([hist |-> r.hist, info |-> IF r.fail = "info" THEN {} ELSE r.info])

DigitChar(n) == <<"0", "1", "2", "3", "4", "5", "6", "7", "8", "9">>[n + 1]

Pad2(n) == <<DigitChar(n \div 10), DigitChar(n % 10)>>

Pad4(n) == Pad2(n \div 100) \o Pad2(n % 100)

IsLeap(y) == (y % 4 = 0 /\ y % 100 # 0) \/ y % 400 = 0

DaysInMonth(y, m) ==
    IF m \in {4, 6, 9, 11} THEN 30
    ELSE IF m = 2 THEN (IF IsLeap(y) THEN 29 ELSE 28)
    ELSE 31

\* datetime of the first six fields of t raises ValueError
datetime_raises(t) ==
    ~ (/\ t[1] \in 1..9999
       /\ t[2] \in 1..12
       /\ t[3] \in 1..DaysInMonth(t[1], t[2])
       /\ t[4] \in 0..23
       /\ t[5] \in 0..59
       /\ t[6] \in 0..59)

\* strftime("%Y-%m-%d") of that datetime
strftime_ymd(t) == Pad4(t[1]) \o <<"-">> \o Pad2(t[2]) \o <<"-">> \o Pad2(t[3])

\* An entry of the parsed feed; published is <<>> when published_parsed is
\* missing or None
Entry(published, hasSource, src, hasTitle, title, hasLink, link) ==
    [published |-> published, hasSource |-> hasSource, src |-> src,
     hasTitle |-> hasTitle, title |-> title, hasLink |-> hasLink, link |-> link]

entry_raises(e) == e.published # <<>> /\ datetime_raises(e.published)

entry_record(e) ==
    [date   |-> IF e.published # <<>> THEN strftime_ymd(e.published) ELSE <<>>,
     title  |-> IF e.hasTitle THEN e.title ELSE <<>>,
     link   |-> IF e.hasLink THEN e.link ELSE <<>>,
     source |-> IF e.hasSource THEN e.src ELSE SourceGoogle]

\* fetch_google_news: feedparser.parse raises ("parse"), or the loop does
fetch_google_news_body(r) ==
    LET es == Prefix(r.entries, MaxResults)
    IN  IF r.fail = "parse" \/ \E i \in 1..Len(es) : entry_raises(es[i]) THEN Returns(<<>>)
        ELSE Returns([i \in 1..Len(es) |-> entry_record(es[i])])

\* fetch_ir_news, the try block: requests.get raises ("get"), raise_for_status
\* raises ("status"), BeautifulSoup raises ("parse"), or the extraction does
fetch_ir_news_try(url, r) ==
    IF r.fail \in {"get", "status", "parse"} THEN [raised |-> TRUE, results |-> <<>>]
    ELSE extract(r.soup, url)

\* fetch_ir_news with resp.raise_for_status() before the try block
fetch_ir_news_body_status_outside(url, r) ==
    IF r.fail = "status" THEN Raises ELSE Returns(fetch_ir_news_try(url, r).results)

\* fetch_ir_news: "except Exception: pass", then "return results"
fetch_ir_news_body(url, r) == Returns(fetch_ir_news_try(url, r).results)

(***************************************************************************)
(* st.cache_data: the store shared by the sessions                         *)
(***************************************************************************)
TTL_STOCK == 300

TTL_NEWS == 600

\* The decorators with their ttl arguments exchanged
ttl_of_exchanged(func) == IF func = "fetch_stock" THEN TTL_NEWS ELSE TTL_STOCK

\* The ttl of the decorator of each fetch function
ttl_of(func) == IF func = "fetch_stock" THEN TTL_STOCK ELSE TTL_NEWS

Key(func, args) == [func |-> func, args |-> args]

NoKey == Key("none", <<>>)

EmptyCache == [k \in {} |-> 0]

\* An entry for k exists and now - timestamp < ttl
cache_fresh(c, k, t) == k \in DOMAIN c /\ t - c[k].ts < ttl_of(k.func)

\* A store with one slot: a write drops the entries of the other keys
cache_write_evicts_others(c, k, v, t) == [x \in {k} |-> [value |-> v, ts |-> t]]

\* A write that updates the timestamp of an existing entry and keeps its value
cache_write_keeps_value(c, k, v, t) ==
    [x \in (DOMAIN c) \cup {k} |->
        IF x = k THEN [value |-> IF k \in DOMAIN c THEN c[k].value ELSE v, ts |-> t]
        ELSE c[x]]

cache_write(c, k, v, t) ==
    [x \in (DOMAIN c) \cup {k} |-> IF x = k THEN [value |-> v, ts |-> t] ELSE c[x]]


\* 'news1'
t_news1 == <<"n", "e", "w", "s", "1">>

\* 'news'
t_news == <<"n", "e", "w", "s">>

\* 'ne'
t_ne == <<"n", "e">>

\* ' ws1 '
t_ws1 == <<" ", "w", "s", "1", " ">>

\* '2024/03/15'
t_slash == <<"2", "0", "2", "4", "/", "0", "3", "/", "1", "5">>

\* 2024年3月15日
t_kanji == <<"2", "0", "2", "4", "nen", "3", "gatsu", "1", "5", "nichi">>

\* ' up 2024.3.5 '
t_ctx == <<" ", "u", "p", " ", "2", "0", "2", "4", ".", "3", ".", "5", " ">>

\* '12/3/4'
t_nodate == <<"1", "2", "/", "3", "/", "4">>

\* '2024.3.5news'
t_dated_title == <<"2", "0", "2", "4", ".", "3", ".", "5", "n", "e", "w", "s">>

\* '  '
t_blank == <<" ", " ">>

\* '/n/1'
h_root == <<"/", "n", "/", "1">>

\* 'n/2'
h_rel == <<"n", "/", "2">>

\* 'https://x.jp/a'
h_abs == <<"h", "t", "t", "p", "s", ":", "/", "/", "x", ".", "j", "p", "/", "a">>

\* 'httpd/a'
h_httprel == <<"h", "t", "t", "p", "d", "/", "a">>

\* '//['
h_bad == <<"/", "/", "[">>

\* '//cdn.jp/a'
h_netloc == <<"/", "/", "c", "d", "n", ".", "j", "p", "/", "a">>

\* 'mailto:ir'
h_mailto == <<"m", "a", "i", "l", "t", "o", ":", "i", "r">>

\* '../a'
h_up == <<".", ".", "/", "a">>

\* 'https://hrbrain.jp/news/'
IrUrl == <<"h", "t", "t", "p", "s", ":", "/", "/", "h", "r", "b", "r", "a", "i", "n", ".", "j", "p", "/", "n", "e", "w", "s", "/">>

\* 'https://smarthr.co.jp/news/'
IrUrl2 == <<"h", "t", "t", "p", "s", ":", "/", "/", "s", "m", "a", "r", "t", "h", "r", ".", "c", "o", ".", "j", "p", "/", "n", "e", "w", "s", "/">>

\* '4071.T'
Ticker == <<"4", "0", "7", "1", ".", "T">>

\* '3mo'
Period3mo == <<"3", "m", "o">>

\* '1y'
Period1y == <<"1", "y">>

\* 'hrbrain'
Query == <<"h", "r", "b", "r", "a", "i", "n">>

\* 'nikkei'
src_nikkei == <<"n", "i", "k", "k", "e", "i">>

Li(kids) == El("li", kids)

\* <li><a href="/n/1">news1</a></li>
li_root == Li(<<AHref(h_root, <<Text(t_news1)>>)>>)

\* <li><span>2024/03/15</span><a href="n/2">ne<b> ws1 </b></a></li>
li_dated ==
    Li(<<El("span", <<Text(t_slash)>>),
         AHref(h_rel, <<Text(t_ne), El("b", <<Text(t_ws1)>>)>>)>>)

\* <li><a href="/n/1">news</a></li>
li_short == Li(<<AHref(h_root, <<Text(t_news)>>)>>)

\* <li>12/3/4</li>
li_plain == Li(<<Text(t_nodate)>>)

\* <li> up 2024.3.5 <a href="https://x.jp/a">news1</a></li>
li_abs == Li(<<Text(t_ctx), AHref(h_abs, <<Text(t_news1)>>)>>)

\* <li><a href="httpd/a">2024.3.5news</a></li>
li_httprel == Li(<<AHref(h_httprel, <<Text(t_dated_title)>>)>>)

\* <li><a>news1</a>2024年3月15日</li>
li_nohref == Li(<<El("a", <<Text(t_news1)>>), Text(t_kanji)>>)

\* <li><a href="//[">news1</a></li>
li_bad == Li(<<AHref(h_bad, <<Text(t_news1)>>)>>)

\* <li><a href="/n/1">news</a><a href="n/2">news1</a></li>
li_second == Li(<<AHref(h_root, <<Text(t_news)>>), AHref(h_rel, <<Text(t_news1)>>)>>)

\* <li><a href="//cdn.jp/a">news1</a>  </li>
li_netloc == Li(<<AHref(h_netloc, <<Text(t_news1)>>), Text(t_blank)>>)

\* <li><a href="mailto:ir">news1</a></li>
li_mailto == Li(<<AHref(h_mailto, <<Text(t_news1)>>)>>)

\* <li><a href="../a">news1</a></li>
li_up == Li(<<AHref(h_up, <<Text(t_news1)>>)>>)

\* <li>12/3/4<ul><li>2024/03/15 ...</li><li> up 2024.3.5 ...</li></ul></li>
li_menu == Li(<<Text(t_nodate), El("ul", <<li_dated, li_abs>>)>>)

\* The items of the exhaustive family of lists
ItemKinds == {li_root, li_short, li_plain, li_abs, li_httprel, li_bad}

Dt(kids) == El("dt", kids)

Dd(kids) == El("dd", kids)

\* <dt>2024/03/15</dt><dd><a href="/n/1">news1</a></dd>
pair_dated == <<Dt(<<Text(t_slash)>>), Dd(<<AHref(h_root, <<Text(t_news1)>>)>>)>>

\* <dt>12/3/4</dt><dd> up 2024.3.5 <a href="n/2"><img></a></dd>
pair_image == <<Dt(<<Text(t_nodate)>>), Dd(<<Text(t_ctx), AHref(h_rel, <<El("img", <<>>)>>)>>)>>

\* <dt><a href="httpd/a">news</a></dt><dd>12/3/4</dd>
pair_term == <<Dt(<<AHref(h_httprel, <<Text(t_news)>>)>>), Dd(<<Text(t_nodate)>>)>>

\* <dt>news</dt><dd>2024年3月15日</dd>
pair_plain == <<Dt(<<Text(t_news)>>), Dd(<<Text(t_kanji)>>)>>

\* <dt>news</dt><dd><a href="//[">news1</a></dd>
pair_bad == <<Dt(<<Text(t_news)>>), Dd(<<AHref(h_bad, <<Text(t_news1)>>)>>)>>

PairKinds == {pair_dated, pair_image, pair_term, pair_plain, pair_bad}

\* The longest list and definition list of the exhaustive families
MaxUlItems == 3

MaxDlLen == 3

\* How far the long lists go beyond MaxResults
LongExtra == 2

SeqsUpTo(S, n) == UNION {[1..m -> S] : m \in 0..n}

Ul(items) == El("ul", items)

\* <dl> of the pairs, each dt followed by its dd
Dl(pairs) == El("dl", Concat(pairs))

\* n items that cycle through cyc
Cycle(n, cyc) == [i \in 1..n |-> cyc[((i - 1) % Len(cyc)) + 1]]

LongLens == ((MaxResults - 1)..(MaxResults + LongExtra)) \cup {MaxResults + MaxResults \div 2 + 1}

LongBlocks ==
    {Ul(Cycle(n, c)) : n \in LongLens, c \in {<<li_root, li_dated>>, <<li_abs, li_short, li_root>>}}
    \cup {Dl(Cycle(n, c)) : n \in LongLens, c \in {<<pair_dated, pair_term>>, <<pair_image, pair_plain, pair_dated>>}}

\* <p><a href="/n/1">news1</a></p>
p_anchor == El("p", <<AHref(h_root, <<Text(t_news1)>>)>>)

\* <dl><dt>..</dt><dt>..</dt><dd>..</dd></dl>: more terms than descriptions
dl_uneven == El("dl", <<pair_dated[1], pair_term[1], pair_dated[2]>>)

\* The blocks of the two-block documents
PairedBlocks ==
    {Ul(<<li_root, li_dated, li_abs>>), Ul(<<li_nohref, li_httprel, li_root, li_short>>),
     Ul(<<li_root, li_short, li_dated>>), Ul(<<li_root, li_bad>>),
     Ul(<<li_root, li_menu>>), Ul(<<li_second, li_second, li_second>>),
     Ul(<<li_netloc, li_mailto, li_up>>),
     Dl(<<pair_dated, pair_term>>), Dl(<<pair_image, pair_plain, pair_image>>),
     Dl(<<pair_dated, pair_plain>>), Dl(<<pair_plain, pair_bad>>), dl_uneven,
     El("div", <<Ul(<<li_root, li_root>>), Dl(<<pair_dated>>)>>), p_anchor}

Blocks ==
    {Ul(items) : items \in SeqsUpTo(ItemKinds, MaxUlItems)}
    \cup {Dl(pairs) : pairs \in SeqsUpTo(PairKinds, MaxDlLen)}
    \cup LongBlocks \cup PairedBlocks

Soup(blocks) == El("[document]", blocks)

\* The documents a news page may hold
Docs ==
    {Soup(<<b>>) : b \in Blocks} \cup {Soup(<<b1, b2>>) : b1 \in PairedBlocks, b2 \in PairedBlocks}

IrAnswer(fail, soup) == Response(fail, <<>>, {}, <<>>, soup)

IrFailures == {IrAnswer(f, NoSoup) : f \in {"get", "status", "parse"}}

IrResponses == IrFailures \cup {IrAnswer("none", d) : d \in Docs}

\* The answers of the news page in the specification of the cache
IrResponsesFew ==
    {IrAnswer("get", NoSoup), IrAnswer("none", Soup(<<Ul(<<li_root, li_dated, li_abs>>)>>)),
     IrAnswer("none", Soup(<<Dl(<<pair_dated, pair_term>>)>>))}

StockAnswer(fail, hist, info) == Response(fail, hist, info, <<>>, NoSoup)

\* closing prices, and the scalar fields of t.info
Hist1 == <<1520, 1534>>

Info1 == {<<"trailingPE", 18>>, <<"priceToBook", 3>>}

StockResponses ==
    {StockAnswer(f, h, i) : f \in {"none", "history", "info"}, h \in {<<>>, Hist1},
                            i \in {{}, Info1}}

StockResponsesFew == {StockAnswer(f, Hist1, Info1) : f \in {"none", "history", "info"}}

GoogleAnswer(fail, entries) == Response(fail, <<>>, {}, entries, NoSoup)

Published1 == <<2024, 3, 5, 9, 30, 0>>

\* not a date: February 30
PublishedBad == <<2024, 2, 30, 0, 0, 0>>

entry_full == Entry(Published1, TRUE, src_nikkei, TRUE, t_news1, TRUE, h_abs)

entry_bare == Entry(<<>>, FALSE, <<>>, FALSE, <<>>, FALSE, <<>>)

entry_untitled == Entry(Published1, FALSE, <<>>, TRUE, <<>>, TRUE, h_abs)

entry_bad_date == Entry(PublishedBad, TRUE, src_nikkei, TRUE, t_news, TRUE, h_abs)

EntryKinds == {entry_full, entry_bare, entry_untitled, entry_bad_date}

MaxEntries == 3

Feeds ==
    SeqsUpTo(EntryKinds, MaxEntries)
    \cup {Cycle(n, <<entry_full, entry_bare>>) : n \in LongLens}

GoogleResponses == {GoogleAnswer(f, es) : f \in {"none", "parse"}, es \in Feeds}

GoogleResponsesFew ==
    {GoogleAnswer("parse", <<>>), GoogleAnswer("none", <<entry_full, entry_bare>>),
     GoogleAnswer("none", <<entry_full, entry_bad_date>>)}

(***************************************************************************)
(* The sessions of the dashboard.  A session calls the cached functions    *)
(* one after the other; the sessions share the store of st.cache_data.     *)
(*   pc[s]     "idle", or "fetching" while the body of a call runs         *)
(*   key[s]    the function and arguments of the latest call of s          *)
(*   hit[s]    how that call ended: "hit" (from the store), "miss" (the    *)
(*             body ran and returned), "raised", "none" (not ended)        *)
(*   ret[s]    the value that call returned                                *)
(*   served[s] what the external service answered to that call             *)
(*   stored    the keys written since the latest clear                     *)
(*   dropped   <<key, timestamp>> of the fresh entries the latest clear    *)
(*             removed, until the key is written again                     *)
(***************************************************************************)
StockKey == Key("fetch_stock", <<Ticker, Period3mo>>)

StockKey1y == Key("fetch_stock", <<Ticker, Period1y>>)

GoogleKey == Key("fetch_google_news", <<Query>>)

IrKey == Key("fetch_ir_news", <<IrUrl>>)

NoResponse == Response("unset", <<>>, {}, <<>>, NoSoup)

\* The instants at which something happens, in seconds
Instants == {0, TTL_STOCK - 1, TTL_STOCK, TTL_NEWS - 1, TTL_NEWS}

InitOf(S) ==
    /\ now = 0
    /\ cache = EmptyCache
    /\ pc = [s \in S |-> "idle"]
    /\ key = [s \in S |-> NoKey]
    /\ ret = [s \in S |-> <<>>]
    /\ served = [s \in S |-> NoResponse]
    /\ hit = [s \in S |-> "none"]
    /\ stored = {}
    /\ dropped = {}

\* Session s calls the cached function of key k with its arguments: the
\* lookup of the wrapper.  A fresh entry is returned; otherwise the body runs.
Call(s, k) ==
    /\ pc[s] = "idle"
    /\ key' = [key EXCEPT ![s] = k]
    /\ IF cache_fresh(cache, k, now)
       THEN /\ ret' = [ret EXCEPT ![s] = cache[k].value]
            /\ hit' = [hit EXCEPT ![s] = "hit"]
            /\ pc' = pc
       ELSE /\ pc' = [pc EXCEPT ![s] = "fetching"]
            /\ hit' = [hit EXCEPT ![s] = "none"]
            /\ ret' = [ret EXCEPT ![s] = <<>>]
    /\ served' = [served EXCEPT ![s] = NoResponse]
    /\ UNCHANGED <<now, cache, stored, dropped>>

\* The external service answers r to the body that session s runs, which
\* ends with the outcome o.  The body returns and the wrapper stores the value
\* with the current time, or the body raises and the exception reaches the
\* caller.
Respond(s, r, o) ==
    /\ pc[s] = "fetching"
    /\ IF o.raised
       THEN /\ hit' = [hit EXCEPT ![s] = "raised"]
            /\ UNCHANGED <<cache, ret, stored, dropped>>
       ELSE /\ cache' = cache_write(cache, key[s], o.value, now)
            /\ ret' = [ret EXCEPT ![s] = o.value]
            /\ hit' = [hit EXCEPT ![s] = "miss"]
            /\ stored' = stored \cup {key[s]}
            /\ dropped' = {d \in dropped : d[1] # key[s]}
    /\ served' = [served EXCEPT ![s] = r]
    /\ pc' = [pc EXCEPT ![s] = "idle"]
    /\ UNCHANGED <<now, key>>

RespondStock(s, R) ==
    \E r \in R : key[s].func = "fetch_stock" /\ Respond(s, r, fetch_stock_body(r))

RespondGoogle(s, R) ==
    \E r \in R : key[s].func = "fetch_google_news" /\ Respond(s, r, fetch_google_news_body(r))

RespondIr(s, R) ==
    \E r \in R :
        key[s].func = "fetch_ir_news" /\ Respond(s, r, fetch_ir_news_body(key[s].args[1], r))

\* Time passes
Tick ==
    /\ \E t \in Instants : t > now /\ now' = t
    /\ UNCHANGED <<cache, pc, key, ret, served, hit, stored, dropped>>

\* The button with fetch_stock.clear() in place of st.cache_data.clear()
manual_refresh_stock_only(s) ==
    /\ pc[s] = "idle"
    /\ cache' = [k \in {x \in DOMAIN cache : x.func # "fetch_stock"} |-> cache[k]]
    /\ stored' = {}
    /\ dropped' = {<<k, cache[k].ts>> : k \in {x \in DOMAIN cache : cache_fresh(cache, x, now)}}
    /\ UNCHANGED <<now, pc, key, ret, served, hit>>

\* The manual-refresh button of main: st.cache_data.clear(), st.rerun()
manual_refresh(s) ==
    /\ pc[s] = "idle"
    /\ cache' = EmptyCache
    /\ stored' = {}
    /\ dropped' = {<<k, cache[k].ts>> : k \in {x \in DOMAIN cache : cache_fresh(cache, x, now)}}
    /\ UNCHANGED <<now, pc, key, ret, served, hit>>

Sessions == {"s1"}

Keys == {StockKey, GoogleKey, IrKey}

Init == InitOf(Sessions)

Next ==
    \/ \E s \in Sessions, k \in Keys : Call(s, k)
    \/ \E s \in Sessions : RespondStock(s, StockResponsesFew)
    \/ \E s \in Sessions : RespondGoogle(s, GoogleResponsesFew)
    \/ \E s \in Sessions : RespondIr(s, IrResponsesFew)
    \/ Tick
    \/ \E s \in Sessions : manual_refresh(s)

Spec == Init /\ [][Next]_vars

\* One session that fetches into an empty store, and every answer of the
\* services
FetchSessions == {"s1"}

FetchKeys == {StockKey, GoogleKey, IrKey}

InitFetch == InitOf(FetchSessions)

NextFetch ==
    \/ \E s \in FetchSessions, k \in FetchKeys : cache = EmptyCache /\ Call(s, k)
    \/ \E s \in FetchSessions : RespondStock(s, StockResponses)
    \/ \E s \in FetchSessions : RespondGoogle(s, GoogleResponses)
    \/ \E s \in FetchSessions : RespondIr(s, IrResponses)
    \/ \E s \in FetchSessions : manual_refresh(s)

SpecFetch == InitFetch /\ [][NextFetch]_vars

\* Two sessions (threads of the server) that call fetch_stock concurrently:
\* the lookup and the return of the body are separate steps, so both may find
\* the key absent or expired and both run the body
RaceSessions == {"s1", "s2"}

RaceKeys == {StockKey}

InitRace == InitOf(RaceSessions)

NextRace ==
    \/ \E s \in RaceSessions, k \in RaceKeys : Call(s, k)
    \/ \E s \in RaceSessions : RespondStock(s, StockResponsesFew)
    \/ Tick

SpecRace == InitRace /\ [][NextRace]_vars

\* fetch_google_news called with the argument of fetch_ir_news
GoogleUrlKey == Key("fetch_google_news", <<IrUrl>>)

\* One session that calls the same function with different arguments and
\* different functions with the same argument
SlotSessions == {"s1"}

SlotKeys == {StockKey, StockKey1y, GoogleUrlKey, IrKey}

SlotInstants == {TTL_STOCK, TTL_NEWS}

StockResponsesTwo == {StockAnswer(f, Hist1, Info1) : f \in {"none", "history"}}

GoogleResponsesTwo == {GoogleAnswer("parse", <<>>), GoogleAnswer("none", <<entry_full>>)}

IrResponsesTwo == {IrAnswer("get", NoSoup), IrAnswer("none", Soup(<<Dl(<<pair_dated, pair_term>>)>>))}

\* Time passes, to one of the instants of I
TickWithin(I) ==
    /\ \E t \in I : t > now /\ now' = t
    /\ UNCHANGED <<cache, pc, key, ret, served, hit, stored, dropped>>

InitSlots == InitOf(SlotSessions)

NextSlots ==
    \/ \E s \in SlotSessions, k \in SlotKeys : Call(s, k)
    \/ \E s \in SlotSessions : RespondStock(s, StockResponsesTwo)
    \/ \E s \in SlotSessions : RespondGoogle(s, GoogleResponsesTwo)
    \/ \E s \in SlotSessions : RespondIr(s, IrResponsesTwo)
    \/ TickWithin(SlotInstants)

SpecSlots == InitSlots /\ [][NextSlots]_vars

(***************************************************************************)
(* The cache                                                               *)
(***************************************************************************)
\* The ttl a fetch function is declared with: 300 s for fetch_stock, 600 s
\* for fetch_google_news and fetch_ir_news
DeclaredTtl(func) == IF func = "fetch_stock" THEN TTL_STOCK ELSE TTL_NEWS

\* C1: a call made while an entry for its key exists with now - timestamp <
\* ttl returns the stored value and does not run the body (the store is left
\* as it is); any other call runs the body, and when the body returns its
\* value is stored under the key with the current time.
C1_TtlHitOrRecompute ==
    [][\A s \in DOMAIN pc :
          /\ \A k \in Keys :
                Call(s, k) =>
                    IF k \in DOMAIN cache /\ now - cache[k].ts < DeclaredTtl(k.func)
                    THEN /\ hit'[s] = "hit"
                         /\ ret'[s] = cache[k].value
                         /\ pc'[s] = "idle"
                         /\ cache' = cache
                    ELSE /\ pc'[s] = "fetching"
                         /\ hit'[s] = "none"
                         /\ cache' = cache
          /\ (pc[s] = "fetching" /\ pc'[s] = "idle") =>
                /\ hit'[s] = "miss"
                /\ key[s] \in DOMAIN cache'
                /\ cache'[key[s]] = [value |-> ret'[s], ts |-> now]
      ]_vars

\* C1 witness: the body of fetch_stock runs again for a key whose entry is
\* exactly ttl seconds old.
C1_Witness ==
    \E s \in DOMAIN pc :
        /\ pc[s] = "fetching"
        /\ key[s] = StockKey
        /\ StockKey \in DOMAIN cache
        /\ now - cache[StockKey].ts = TTL_STOCK

\* C2: the manual refresh leaves no entry in the store, and a call for a key
\* that was not written since the latest clear runs the body: only entries
\* written after the clear are ever returned.
C2_ClearForcesRecompute ==
    [][\A s \in DOMAIN pc :
          /\ manual_refresh(s) => DOMAIN cache' = {}
          /\ \A k \in Keys :
                Call(s, k) /\ k \notin stored => pc'[s] = "fetching" /\ hit'[s] # "hit"
      ]_vars

\* C2 witness: after a clear the body runs for a key whose entry, removed by
\* the clear, would still be within its ttl.
C2_Witness ==
    \E s \in DOMAIN pc : \E d \in dropped :
        /\ pc[s] = "fetching"
        /\ key[s] = d[1]
        /\ now - d[2] < DeclaredTtl(d[1].func)

(***************************************************************************)
(* The fetch functions are total                                           *)
(***************************************************************************)
\* An external call or a step of the extraction raised in the latest call of s
Failed(s) ==
    \/ served[s].fail \notin {"none", "unset"}
    \/ /\ key[s].func = "fetch_ir_news"
       /\ served[s].fail = "none"
       /\ extract(served[s].soup, key[s].args[1]).raised
    \/ /\ key[s].func = "fetch_google_news"
       /\ served[s].fail = "none"
       /\ \E i \in 1..Min(Len(served[s].entries), MaxResults) :
             entry_raises(served[s].entries[i])

EmptyResult(func) == IF func = "fetch_stock" THEN EmptyStock ELSE <<>>

\* C3 as stated: no exception reaches the caller, and a call in which an
\* external call or a step of the extraction raised returns the empty result.
C3_FailureGivesEmptyResult ==
    \A s \in DOMAIN pc :
        /\ hit[s] # "raised"
        /\ (hit[s] = "miss" /\ Failed(s)) => ret[s] = EmptyResult(key[s].func)

\* C3 amended: no exception reaches the caller, and a call in which an
\* external call or a step of the extraction raised returns the empty result,
\* except that when only t.info raises in fetch_stock the history read before
\* it is returned with an empty info map.
C3_FailureGivesValue ==
    \A s \in DOMAIN pc :
        /\ hit[s] # "raised"
        /\ (hit[s] = "miss" /\ Failed(s)) =>
              ret[s] = IF key[s].func = "fetch_stock" /\ served[s].fail = "info"
                       THEN [hist |-> served[s].hist, info |-> {}]
                       ELSE EmptyResult(key[s].func)

\* C3 witness: t.info raised and fetch_stock returned the history it had read.
C3_Witness ==
    \E s \in DOMAIN pc :
        /\ hit[s] = "miss"
        /\ key[s].func = "fetch_stock"
        /\ served[s].fail = "info"
        /\ ret[s] = [hist |-> Hist1, info |-> {}]

(***************************************************************************)
(* The records of the news fetchers                                        *)
(***************************************************************************)
\* The body of a news fetcher ran in the latest call of s and returned
NewsReturned(s) ==
    hit[s] = "miss" /\ key[s].func \in {"fetch_google_news", "fetch_ir_news"}

\* fetch_ir_news returned in the latest call of s, for a page that was
\* retrieved and parsed
IrReturned(s) ==
    hit[s] = "miss" /\ key[s].func = "fetch_ir_news" /\ served[s].fail = "none"

\* A step of the extraction raised in the latest call of s
ExtractionRaised(s) == extract(served[s].soup, key[s].args[1]).raised

\* C4: in every record a news fetcher returns, whatever the document or the
\* feed, the title is not the empty string.
C4_TitleNonEmpty ==
    \A s \in DOMAIN pc :
        NewsReturned(s) => \A i \in 1..Len(ret[s]) : ret[s][i].title # <<>>

\* A URL with a scheme
IsAbsolute(u) == scheme_end(u) # 0

\* The link the record of an anchor with this href is to carry
ClaimedLink(url, href) ==
    IF href = <<>> THEN <<>>
    ELSE IF IsAbsolute(href) THEN href
    ELSE urljoin(url, href)

\* C5: the link of every returned record is empty or an absolute URL, and it
\* is the href of an anchor of the document with the title of the record,
\* unchanged when that href is absolute and resolved against the base URL
\* when it is relative.
C5_LinkAbsoluteOrEmpty ==
    \A s \in DOMAIN pc :
        IrReturned(s) =>
            \A i \in 1..Len(ret[s]) :
                /\ ret[s][i].link = <<>> \/ IsAbsolute(ret[s][i].link)
                /\ \E j \in 1..Len(find_all(served[s].soup, "a")) :
                      LET a == find_all(served[s].soup, "a")[j]
                      IN  /\ get_text_strip(a) = ret[s][i].title
                          /\ ret[s][i].link = ClaimedLink(key[s].args[1], get_href(a))

\* The match of the date pattern in the first of the strings that has one,
\* the empty string when none has
RECURSIVE ClaimedDate(_)
ClaimedDate(strings) ==
    IF strings = <<>> THEN <<>>
    ELSE IF DATE_PAT_search(Head(strings))[1] # 0 THEN DATE_PAT_group(Head(strings))
    ELSE ClaimedDate(Tail(strings))

\* The nodes of the document that dates are extracted from
DateNodes(soup) ==
    {find_all(soup, "li")[i] : i \in 1..Len(find_all(soup, "li"))}
    \cup {find_all(soup, "dt")[i] : i \in 1..Len(find_all(soup, "dt"))}
    \cup {find_all(soup, "dd")[i] : i \in 1..Len(find_all(soup, "dd"))}

\* C6: the date of every returned record is the empty string or exactly the
\* substring that matches the date pattern in the first matching text node of
\* the node it was extracted from, never the text around the match.
C6_DateIsMatchedSubstring ==
    \A s \in DOMAIN pc :
        IrReturned(s) =>
            \A i \in 1..Len(ret[s]) :
                \/ ret[s][i].date = <<>>
                \/ /\ DATE_PAT_group(ret[s][i].date) = ret[s][i].date
                   /\ \E n \in DateNodes(served[s].soup) :
                         ret[s][i].date = ClaimedDate(stripped_strings(n))

(***************************************************************************)
(* The two strategies of the extraction                                    *)
(***************************************************************************)
\* The visible text of the first anchor of a node that has one
AnchorTitle(n) == get_text_strip(find(n, "a"))

\* An item with an anchor whose text has at least 5 characters
IsQualifyingItem(li) == has_tag(li, "a") /\ Len(AnchorTitle(li)) >= MinTitleLen

\* The qualifying items among the li elements below a ul
QualifyingItems(ul) == SelectSeq(find_all(ul, "li"), IsQualifyingItem)

HasEnoughItems(ul) == Len(QualifyingItems(ul)) >= MinListItems

\* The lists of the document with at least 3 qualifying items
AcceptedUls(soup) == SelectSeq(find_all(soup, "ul"), HasEnoughItems)

HasAnchor(pair) == has_tag(pair[2], "a") \/ has_tag(pair[1], "a")

\* The positional dt[i], dd[i] pairs of a dl that have an anchor
AnchorPairs(dl) == SelectSeq(zip(find_all(dl, "dt"), find_all(dl, "dd")), HasAnchor)

HasEnoughPairs(dl) ==
    Len(find_all(dl, "dt")) >= MinDlTerms /\ Len(AnchorPairs(dl)) >= MinDlPairs

\* The definition lists of the document with at least 2 dt elements and at
\* least 2 pairs with an anchor
AcceptedDls(soup) == SelectSeq(find_all(soup, "dl"), HasEnoughPairs)

\* The anchor of a pair: the one of the dd, else the one of the dt
AnchorOfPair(pair) == IF has_tag(pair[2], "a") THEN find(pair[2], "a") ELSE find(pair[1], "a")

\* The record of a pair with an anchor
PairRecord(pair, url) ==
    NewsRecord(pair_date(pair), get_text_strip(AnchorOfPair(pair)),
               resolve_href(url, get_href(AnchorOfPair(pair))))

PairRecords(pairs, url) == [i \in 1..Len(pairs) |-> PairRecord(pairs[i], url)]

\* No text node of the item matches the date pattern
NoDateText(li) == ClaimedDate(stripped_strings(li)) = <<>>

\* The only ul of the document holds exactly 3 qualifying items, none with
\* date text
ThreeItemDocument(soup) ==
    /\ Len(find_all(soup, "ul")) = 1
    /\ Len(QualifyingItems(find(soup, "ul"))) = MinListItems
    /\ \A i \in 1..MinListItems : NoDateText(QualifyingItems(find(soup, "ul"))[i])

\* The records are those of the 3 items, in order, with empty date
ThreeItemRecords(recs, soup) ==
    /\ Len(recs) = MinListItems
    /\ \A i \in 1..MinListItems :
          /\ recs[i].title = AnchorTitle(QualifyingItems(find(soup, "ul"))[i])
          /\ recs[i].date = <<>>

\* Strategy A keeps at most 20 records, and gives the result only when some
\* ul has at least 3 qualifying items
StrategyASafe(recs, a, soup) ==
    /\ Len(recs) <= MaxResults
    /\ Len(a) <= MaxResults
    /\ a # <<>> => recs = a /\ AcceptedUls(soup) # <<>>

StrategyBResult(soup, url) ==
    IF AcceptedDls(soup) # <<>>
    THEN Prefix(PairRecords(AnchorPairs(Head(AcceptedDls(soup))), url), MaxResults)
    ELSE <<>>

\* The result when Strategy A gave a and Strategy B is to give b
AThenB(a, b) == IF a # <<>> THEN a ELSE b

C9_ShortTitlesDiscarded ==
    \A s \in DOMAIN pc :
        IrReturned(s) =>
            /\ pattern1(served[s].soup, key[s].args[1]).results # <<>> =>
                  /\ ret[s] = pattern1(served[s].soup, key[s].args[1]).results
                  /\ \A i \in 1..Len(ret[s]) : Len(ret[s][i].title) >= MinTitleLen
            /\ AcceptedUls(served[s].soup) = <<>> =>
                  pattern1(served[s].soup, key[s].args[1]).results = <<>>

\* An item of the list whose first anchor has a text shorter than 5
HasShortItem(ul) ==
    \E i \in 1..Len(find_all(ul, "li")) :
        /\ has_tag(find_all(ul, "li")[i], "a")
        /\ Len(AnchorTitle(find_all(ul, "li")[i])) < MinTitleLen

\* C9 witness: Strategy A gave the result from a list that holds an item
\* with a short anchor text, and the result has no record for that item.
C9_Witness ==
    \E s \in DOMAIN pc :
        /\ IrReturned(s)
        /\ AcceptedUls(served[s].soup) # <<>>
        /\ HasShortItem(Head(AcceptedUls(served[s].soup)))
        /\ ret[s] # <<>>
        /\ Len(ret[s]) = Len(QualifyingItems(Head(AcceptedUls(served[s].soup))))

\* No ul reaches 3 qualifying items and no dl reaches 2 pairs with an anchor
MatchesNeither(soup) ==
    /\ \A i \in 1..Len(find_all(soup, "ul")) :
          Len(QualifyingItems(find_all(soup, "ul")[i])) < MinListItems
    /\ \A i \in 1..Len(find_all(soup, "dl")) :
          Len(AnchorPairs(find_all(soup, "dl")[i])) < MinDlPairs

\* C10: for a page that was retrieved and parsed and in which no ul reaches
\* 3 qualifying items and no dl reaches 2 qualifying pairs, fetch_ir_news
\* returns the empty list as a value and raises nothing.
C10_NeitherStrategyGivesEmptyList ==
    \A s \in DOMAIN pc :
        (/\ key[s].func = "fetch_ir_news"
         /\ served[s].fail = "none"
         /\ MatchesNeither(served[s].soup))
        => hit[s] = "miss" /\ ret[s] = <<>>

\* C10 witness: the page is a single p with an anchor, and the empty list
\* was returned.
C10_Witness ==
    \E s \in DOMAIN pc :
        /\ IrReturned(s)
        /\ served[s].soup = Soup(<<p_anchor>>)
        /\ ret[s] = <<>>

(***************************************************************************)
(* Concurrent callers                                                      *)
(***************************************************************************)
\* v is the whole value that the body of fetch_stock returns for some answer
IsStockResult(v) == \E r \in StockResponsesFew : v = fetch_stock_body(r).value

\* C11: under every interleaving of two sessions that call fetch_stock with
\* the same key, a call that is served from the store gets the stored entry's
\* value, which is the whole result of a finished run of the body; a run of the
\* body that returns gives its caller its own whole result and leaves it in the
\* store with the current time, replacing what another run wrote before.
C11_ReadersSeeWholeEntries ==
    [][\A s \in DOMAIN pc :
          /\ \A k \in RaceKeys :
                (Call(s, k) /\ hit'[s] = "hit") =>
                    /\ k \in DOMAIN cache
                    /\ ret'[s] = cache[k].value
                    /\ IsStockResult(ret'[s])
                    /\ cache' = cache
          /\ (pc[s] = "fetching" /\ pc'[s] = "idle") =>
                /\ hit'[s] = "miss"
                /\ ret'[s] = fetch_stock_body(served'[s]).value
                /\ cache'[key[s]] = [value |-> ret'[s], ts |-> now]
      ]_vars

\* C11 witness: two sessions found the same key absent at the same instant,
\* both ran the body and got different results, and the store holds one of
\* the two, whole.
C11_Witness ==
    \E s \in DOMAIN pc : \E u \in DOMAIN pc :
        /\ s # u
        /\ now = 0
        /\ key[s] = key[u]
        /\ hit[s] = "miss" /\ hit[u] = "miss"
        /\ ret[s] # ret[u]
        /\ key[s] \in DOMAIN cache
        /\ cache[key[s]].ts = now
        /\ cache[key[s]].value = ret[u]

(***************************************************************************)
(* One slot for each function and argument tuple                           *)
(***************************************************************************)
\* The entry of k is after the step what it was before
EntryKept(k) == k \in DOMAIN cache' /\ cache'[k] = cache[k]

\* C12: a call, whether it is served from the store or runs the body, and
\* the return of a body leave the value and the timestamp of every other key
\* as they were; a call is served from the store only by the entry of its own
\* function and arguments, however fresh the entries of the same function with
\* other arguments or of another function with the same argument are.
C12_SlotsAreIndependent ==
    [][\A s \in DOMAIN pc :
          /\ \A k \in DOMAIN cache : key'[s] # k => EntryKept(k)
          /\ \A k \in SlotKeys :
                Call(s, k) =>
                    IF hit'[s] = "hit"
                    THEN k \in DOMAIN cache /\ ret'[s] = cache[k].value
                    ELSE /\ pc'[s] = "fetching"
                         /\ k \in DOMAIN cache => now - cache[k].ts >= DeclaredTtl(k.func)
      ]_vars

\* C12 witness: fetch_stock has just run for the period 1y while the entry
\* for the same ticker and the period 3mo keeps its older timestamp and its
\* different value, and fetch_google_news and fetch_ir_news hold one entry
\* each for the same argument.
C12_Witness ==
    \E s \in DOMAIN pc :
        /\ hit[s] = "miss"
        /\ key[s] = StockKey1y
        /\ {StockKey, StockKey1y, GoogleUrlKey, IrKey} \subseteq DOMAIN cache
        /\ cache[StockKey1y].ts = now
        /\ cache[StockKey].ts < now
        /\ cache[StockKey].value # cache[StockKey1y].value
        /\ cache[GoogleUrlKey].ts # cache[IrKey].ts

(***************************************************************************)
(* The items of a list                                                     *)
(***************************************************************************)
IsListItem(n) == IsTag(n, "li")

\* The li children of a ul, in document order
ChildItems(ul) == SelectSeq(ul.kids, IsListItem)

\* The qualifying items among the li children of a ul
QualifyingChildren(ul) == SelectSeq(ChildItems(ul), IsQualifyingItem)

HasEnoughChildren(ul) == Len(QualifyingChildren(ul)) >= MinListItems

\* The lists of the document with at least 3 qualifying li children
AcceptedByChildren(soup) == SelectSeq(find_all(soup, "ul"), HasEnoughChildren)

\* The record of a qualifying item
ChildRecord(li, url) ==
    NewsRecord(extract_date(li), AnchorTitle(li), resolve_href(url, get_href(find(li, "a"))))

ChildRecords(items, url) == [i \in 1..Len(items) |-> ChildRecord(items[i], url)]

\* The first 20 records of the qualifying li children of the first of uls
FirstBatch(uls, url) == Prefix(ChildRecords(QualifyingChildren(Head(uls)), url), MaxResults)

\* C13: a result of Strategy A is the first-20 prefix of the batch of the
\* first ul in document order that has at least 3 qualifying items among its
\* own li children, built from those children only, in document order; and
\* when no step raises, a document with such a ul gets that result.
C13_BatchOfOwnChildren ==
    \A s \in DOMAIN pc :
        IrReturned(s) =>
            /\ pattern1(served[s].soup, key[s].args[1]).results # <<>> =>
                  /\ AcceptedByChildren(served[s].soup) # <<>>
                  /\ ret[s] = FirstBatch(AcceptedByChildren(served[s].soup), key[s].args[1])
            /\ (AcceptedByChildren(served[s].soup) # <<>> /\ ~ExtractionRaised(s)) =>
                  ret[s] = FirstBatch(AcceptedByChildren(served[s].soup), key[s].args[1])

====
